---- MODULE Spec2Model ----
(***************************************************************************)
(* Model of numeric_analysis.py: Lagrange interpolation (get_lagranges,    *)
(* interpol_poly, Lagrange.evaluate, evaluate_lagranges), Horner's method  *)
(* (horner) and the coefficient formatter (convert_poly_to_str).           *)
(*                                                                         *)
(* Numbers.  The inputs are Python ints.  Sums, differences and products   *)
(* of ints are exact ints.  The one true division, `product /=             *)
(* self.denominator`, is modelled by its exact quotient, a rational in     *)
(* lowest terms [num, den] with den > 0 (what the code computes on         *)
(* fractions.Fraction inputs, and what a float result rounds); a zero      *)
(* divisor raises ZeroDivisionError.  Binary floating-point rounding is    *)
(* not modelled.                                                           *)
(*                                                                         *)
(* Sequences are 1-based here: Python index i is index i+1 of the model.   *)
(* Python strings are sequences of one-character strings.                  *)
(***************************************************************************)
EXTENDS Integers, Sequences, FiniteSets, TLC

\* ---------------------------------------------------------------- bounds
\* longest node and value sequences; node values 0..MaxNode; target values
\* -MaxY..MaxY; longest coefficient sequence (one more for the formatter);
\* coefficient values -MaxNeg..MaxCoef
MaxLen == 2
MaxNode == 2
MaxY == 1
MaxCoefs == 3
MaxNeg == 2
MaxCoef == 10

NodeVals == 0..MaxNode
YVals == (-MaxY)..MaxY
Points == (-1)..(MaxNode + 1)
CoefVals == (-MaxNeg)..MaxCoef

\* ------------------------------------------------------------ arithmetic
Abs(n) == IF n < 0 THEN -n ELSE n

RECURSIVE Gcd(_, _)
Gcd(a, b) == IF b = 0 THEN a ELSE Gcd(b, a % b)

\* an int as a number of the quotient domain
FromInt(n) == [num |-> n, den |-> 1]

\* a / b for b # 0: the exact quotient in lowest terms, den > 0
TrueDiv(a, b) ==
    LET g == Gcd(Abs(a), Abs(b))
        s == IF b < 0 THEN -1 ELSE 1
    IN  [num |-> (s * a) \div g, den |-> (s * b) \div g]

\* p + q on quotients
Add(p, q) == TrueDiv(p.num * q.den + q.num * p.den, p.den * q.den)

\* what a call that raised leaves in place of a return value
NoValue == [num |-> 0, den |-> 0]

\* ------------------------------------------------------- class Lagrange
Lagrange(x_array, denominator, numerator) ==
    [x_array |-> x_array, denominator |-> denominator, numerator |-> numerator]

\* for x_val in self.x_array: product *= (eval_point - x_val)
RECURSIVE evaluate_loop(_, _, _, _)
evaluate_loop(product, x_array, eval_point, k) ==
    IF k > Len(x_array) THEN product
    ELSE evaluate_loop(product * (eval_point - x_array[k]), x_array, eval_point, k + 1)

\* mutant: the running product is kept in self.numerator
evaluate_in_place(self, eval_point) ==
    LET product == evaluate_loop(self.numerator, self.x_array, eval_point, 1)
        post == [self EXCEPT !.numerator = product]
    IN  IF self.denominator = 0
        THEN [raised |-> "ZeroDivisionError", value |-> NoValue, self |-> post]
        ELSE [raised |-> "none", value |-> TrueDiv(product, self.denominator), self |-> post]

\* mutant: the product starts at 1, the numerator is dropped
evaluate_unweighted(self, eval_point) ==
    LET product == evaluate_loop(1, self.x_array, eval_point, 1)
    IN  IF self.denominator = 0
        THEN [raised |-> "ZeroDivisionError", value |-> NoValue, self |-> self]
        ELSE [raised |-> "none", value |-> TrueDiv(product, self.denominator), self |-> self]

\* mutant: a zero denominator yields a number instead of raising
evaluate_unchecked(self, eval_point) ==
    LET product == evaluate_loop(self.numerator, self.x_array, eval_point, 1)
    IN  IF self.denominator = 0
        THEN [raised |-> "none", value |-> FromInt(0), self |-> self]
        ELSE [raised |-> "none", value |-> TrueDiv(product, self.denominator), self |-> self]

\* Lagrange.evaluate: the value returned (or the exception raised) and the
\* entry as the call leaves it
evaluate(self, eval_point) ==
    LET product == evaluate_loop(self.numerator, self.x_array, eval_point, 1)
    IN  IF self.denominator = 0
        THEN [raised |-> "ZeroDivisionError", value |-> NoValue, self |-> self]
        ELSE [raised |-> "none", value |-> TrueDiv(product, self.denominator), self |-> self]

\* -------------------------------------------------------- get_lagranges
\* mutant: the difference is taken the other way round
inner_body_swapped(x_arr, i, j, st) ==
    IF j # i
    THEN [new_arr |-> Append(st.new_arr, x_arr[j]),
          denom_product |-> st.denom_product * (x_arr[j] - x_arr[i])]
    ELSE st

\* mutant: the node itself is not skipped
inner_body_noskip(x_arr, i, j, st) ==
    [new_arr |-> Append(st.new_arr, x_arr[j]),
     denom_product |-> IF j # i THEN st.denom_product * (x_arr[i] - x_arr[j])
                       ELSE st.denom_product]

\* one pass of the inner loop: if j != i: append, multiply
inner_body(x_arr, i, j, st) ==
    IF j # i
    THEN [new_arr |-> Append(st.new_arr, x_arr[j]),
          denom_product |-> st.denom_product * (x_arr[i] - x_arr[j])]
    ELSE st

RECURSIVE inner_loop(_, _, _, _)
inner_loop(x_arr, i, j, st) ==
    IF j > Len(x_arr) THEN st
    ELSE inner_loop(x_arr, i, j + 1, inner_body(x_arr, i, j, st))

RECURSIVE outer_loop(_, _, _)
outer_loop(x_arr, i, lagrange_list) ==
    IF i > Len(x_arr) THEN lagrange_list
    ELSE LET st == inner_loop(x_arr, i, 1, [new_arr |-> <<>>, denom_product |-> 1])
         IN  outer_loop(x_arr, i + 1,
                        Append(lagrange_list, Lagrange(st.new_arr, st.denom_product, 1)))

get_lagranges(x_arr) == outer_loop(x_arr, 1, <<>>)

\* -------------------------------------------------------- interpol_poly
RECURSIVE interpol_loop(_, _, _)
interpol_loop(lagranges, y_arr, i) ==
    IF i > Len(lagranges) THEN [raised |-> "none", value |-> lagranges]
    ELSE IF i > Len(y_arr) THEN [raised |-> "IndexError", value |-> <<>>]
    ELSE interpol_loop([lagranges EXCEPT ![i].numerator = y_arr[i]], y_arr, i + 1)

interpol_poly(x_arr, y_arr) == interpol_loop(get_lagranges(x_arr), y_arr, 1)

\* --------------------------------------------------- evaluate_lagranges
RECURSIVE evaluate_lagranges_loop(_, _, _, _)
evaluate_lagranges_loop(lagrange_list, eval_point, k, poly_sum) ==
    IF k > Len(lagrange_list)
    THEN [raised |-> "none", value |-> poly_sum, lagrange_list |-> lagrange_list]
    ELSE LET r == evaluate(lagrange_list[k], eval_point)
             post == [lagrange_list EXCEPT ![k] = r.self]
         IN  IF r.raised # "none"
             THEN [raised |-> r.raised, value |-> NoValue, lagrange_list |-> post]
             ELSE evaluate_lagranges_loop(post, eval_point, k + 1, Add(poly_sum, r.value))

evaluate_lagranges(lagrange_list, eval_point) ==
    evaluate_lagranges_loop(lagrange_list, eval_point, 1, FromInt(0))

\* ----------------------------------------------------------------- horner
\* mutant: the coefficient is scaled instead of the accumulator
horner_body_scaled(result, x_val, coeff) == result + x_val * coeff

\* result = result * x_val + coeff
horner_body(result, x_val, coeff) == result * x_val + coeff

RECURSIVE horner_loop(_, _, _, _)
horner_loop(polynomial, x_val, k, result) ==
    IF k > Len(polynomial) THEN result
    ELSE horner_loop(polynomial, x_val, k + 1, horner_body(result, x_val, polynomial[k]))

horner(polynomial, x_val) == horner_loop(polynomial, x_val, 1, 0)

\* ---------------------------------------------------- convert_poly_to_str
DigitChars == <<"0", "1", "2", "3", "4", "5", "6", "7", "8", "9">>

RECURSIVE NatToStr(_)
NatToStr(n) ==
    IF n < 10 THEN <<DigitChars[n + 1]>>
    ELSE NatToStr(n \div 10) \o <<DigitChars[(n % 10) + 1]>>

\* f"{n}" of an int
str(n) == IF n < 0 THEN <<"-">> \o NatToStr(-n) ELSE NatToStr(n)

\* s[:-1]
DropLast(s) == IF Len(s) = 0 THEN s ELSE SubSeq(s, 1, Len(s) - 1)

\* one pass of the loop; k is Python's i + 1
convert_body(coeffs, k, poly_str) ==
    IF k = Len(coeffs)
    THEN [returned |-> TRUE, poly_str |-> poly_str \o <<" ">> \o str(coeffs[k])]
    ELSE LET s == IF coeffs[k] < 0 THEN DropLast(poly_str) ELSE poly_str
         IN  [returned |-> FALSE,
              poly_str |-> s \o str(coeffs[k]) \o <<"x", "^">>
                             \o str(Len(coeffs) - k) \o <<" ", "+">>]

RECURSIVE convert_loop(_, _, _)
convert_loop(coeffs, k, poly_str) ==
    IF k > Len(coeffs) THEN [is_none |-> TRUE, str |-> <<>>]
    ELSE LET b == convert_body(coeffs, k, poly_str)
         IN  IF b.returned THEN [is_none |-> FALSE, str |-> b.poly_str]
             ELSE convert_loop(coeffs, k + 1, b.poly_str)

convert_poly_to_str(coeffs) == convert_loop(coeffs, 1, <<>>)

\* ------------------------------------------------------------------ state
VARIABLES
    call,          \* the function called last
    raised,        \* the exception that call raised, or "none"
    x_arr,         \* arguments of the last get_lagranges / interpol_poly
    y_arr,
    built_by,      \* which of the two built lagrange_set
    lagrange_set,  \* the caller's basis: [bound, list]; unbound after a raise
    eval_point,    \* argument of the last evaluate_lagranges
    poly_sum,      \* its return value, NoValue if it raised
    repeated,      \* history: the last call evaluated the point of the call before
    polynomial,    \* arguments and return value of the last horner
    x_val,
    result,
    coeffs,        \* argument and return value of the last convert_poly_to_str
    poly_str

vars == <<call, raised, x_arr, y_arr, built_by, lagrange_set, eval_point, poly_sum,
          repeated, polynomial, x_val, result, coeffs, poly_str>>

lagrange_vars == <<x_arr, y_arr, built_by, lagrange_set, eval_point, poly_sum, repeated>>
horner_vars == <<polynomial, x_val, result>>
format_vars == <<coeffs, poly_str>>

Unbound == [bound |-> FALSE, list |-> <<>>]

Init ==
    /\ call = "none"
    /\ raised = "none"
    /\ x_arr = <<>>
    /\ y_arr = <<>>
    /\ built_by = "none"
    /\ lagrange_set = Unbound
    /\ eval_point = 0
    /\ poly_sum = NoValue
    /\ repeated = FALSE
    /\ polynomial = <<>>
    /\ x_val = 0
    /\ result = 0
    /\ coeffs = <<>>
    /\ poly_str = [is_none |-> TRUE, str |-> <<>>]

\* A run of the pipeline builds one basis (get_lagranges or interpol_poly) and
\* then evaluates it any number of times; a run of horner or of
\* convert_poly_to_str is one call.

\* lagrange_set = get_lagranges(x)
GetLagranges ==
    /\ built_by = "none"
    /\ \E n \in 0..MaxLen : \E x \in [1..n -> NodeVals] :
          /\ call' = "get_lagranges"
          /\ raised' = "none"
          /\ x_arr' = x
          /\ y_arr' = <<>>
          /\ built_by' = "get_lagranges"
          /\ lagrange_set' = [bound |-> TRUE, list |-> get_lagranges(x)]
          /\ repeated' = FALSE
    /\ UNCHANGED <<eval_point, poly_sum, horner_vars, format_vars>>

\* lagrange_set = interpol_poly(x, y)
InterpolPoly ==
    /\ built_by = "none"
    /\ \E n \in 0..MaxLen, m \in 0..MaxLen :
          \E x \in [1..n -> NodeVals], y \in [1..m -> YVals] :
             LET r == interpol_poly(x, y)
             IN  /\ call' = "interpol_poly"
                 /\ raised' = r.raised
                 /\ x_arr' = x
                 /\ y_arr' = y
                 /\ built_by' = "interpol_poly"
                 /\ lagrange_set' = IF r.raised = "none"
                                    THEN [bound |-> TRUE, list |-> r.value]
                                    ELSE Unbound
                 /\ repeated' = FALSE
    /\ UNCHANGED <<eval_point, poly_sum, horner_vars, format_vars>>

\* evaluate_lagranges(lagrange_set, p)
EvaluateLagranges ==
    /\ lagrange_set.bound
    /\ \E p \in Points :
          LET r == evaluate_lagranges(lagrange_set.list, p)
          IN  /\ call' = "evaluate_lagranges"
              /\ raised' = r.raised
              /\ eval_point' = p
              /\ poly_sum' = r.value
              /\ lagrange_set' = [lagrange_set EXCEPT !.list = r.lagrange_list]
              /\ repeated' = (call = "evaluate_lagranges" /\ p = eval_point)
    /\ UNCHANGED <<x_arr, y_arr, built_by, horner_vars, format_vars>>

\* horner(c, x)
Horner ==
    /\ call = "none"
    /\ \E n \in 0..MaxCoefs : \E c \in [1..n -> CoefVals], x \in Points :
          /\ call' = "horner"
          /\ raised' = "none"
          /\ polynomial' = c
          /\ x_val' = x
          /\ result' = horner(c, x)
    /\ UNCHANGED <<lagrange_vars, format_vars>>

\* convert_poly_to_str(c)
ConvertPolyToStr ==
    /\ call = "none"
    /\ \E n \in 0..(MaxCoefs + 1) : \E c \in [1..n -> CoefVals] :
          /\ call' = "convert_poly_to_str"
          /\ raised' = "none"
          /\ coeffs' = c
          /\ poly_str' = convert_poly_to_str(c)
    /\ UNCHANGED <<lagrange_vars, horner_vars>>

Next ==
    \/ GetLagranges
    \/ InterpolPoly
    \/ EvaluateLagranges

Spec == Init /\ [][Next]_vars

NextHorner == Horner

SpecHorner == Init /\ [][NextHorner]_vars

NextFormat == ConvertPolyToStr

SpecFormat == Init /\ [][NextFormat]_vars

\* ------------------------------------------------- reference definitions
Distinct(x) == \A i, j \in 1..Len(x) : i # j => x[i] # x[j]

HasDuplicate(x) == \E i, j \in 1..Len(x) : i # j /\ x[i] = x[j]

\* x without its element at index i, the others in their order
RemoveAt(x, i) == [k \in 1..(Len(x) - 1) |-> IF k < i THEN x[k] ELSE x[k + 1]]

\* the product of f[k] over the indices k in S
RECURSIVE ProductOver(_, _)
ProductOver(f, S) ==
    IF S = {} THEN 1
    ELSE LET k == CHOOSE m \in S : \A o \in S : m >= o
         IN  f[k] * ProductOver(f, S \ {k})

\* the product over j # i of (x[i] - x[j])
NodeProduct(x, i) ==
    ProductOver([j \in 1..Len(x) |-> x[i] - x[j]], (1..Len(x)) \ {i})

RECURSIVE Pow(_, _)
Pow(b, e) == IF e = 0 THEN 1 ELSE b * Pow(b, e - 1)

\* the sum over the indices k..Len(c) of c[i] * x^(Len(c) - i)
RECURSIVE PowerSumFrom(_, _, _)
PowerSumFrom(c, x, k) ==
    IF k > Len(c) THEN 0
    ELSE c[k] * Pow(x, Len(c) - k) + PowerSumFrom(c, x, k + 1)

PowerSum(c, x) == PowerSumFrom(c, x, 1)

\* numerator * product over x in x_array of (point - x) / denominator
Term(entry, point) ==
    TrueDiv(entry.numerator
              * ProductOver([k \in 1..Len(entry.x_array) |-> point - entry.x_array[k]],
                            1..Len(entry.x_array)),
            entry.denominator)

\* the sum of the terms of the entries k..Len(basis), last entry first
RECURSIVE TermSumFrom(_, _, _)
TermSumFrom(basis, point, k) ==
    IF k > Len(basis) THEN FromInt(0)
    ELSE Add(Term(basis[k], point), TermSumFrom(basis, point, k + 1))

basis == lagrange_set.list

\* ------------------------------------------------------------------ claims

\* C1 (node exactness): after interpol_poly(x, y) on pairwise distinct nodes
\* x and as many values y, evaluate_lagranges at a node x[k] returns y[k].
NodeExactness ==
    (/\ call = "evaluate_lagranges"
     /\ built_by = "interpol_poly"
     /\ Len(y_arr) = Len(x_arr)
     /\ Distinct(x_arr))
    => \A k \in 1..Len(x_arr) :
          eval_point = x_arr[k] => raised = "none" /\ poly_sum = FromInt(y_arr[k])

NodeExactnessWitness ==
    /\ call = "evaluate_lagranges"
    /\ built_by = "interpol_poly"
    /\ Len(x_arr) = 2
    /\ Len(y_arr) = 2
    /\ Distinct(x_arr)
    /\ eval_point = x_arr[2]
    /\ y_arr[2] # 0
    /\ y_arr[1] # 0
    /\ y_arr[1] # y_arr[2]
    /\ poly_sum = FromInt(y_arr[2])

\* C2 (degree bound): when the values y are those of a reference polynomial R
\* of degree < n at the n pairwise distinct nodes, evaluate_lagranges returns
\* R(p) at every point p, nodes and non-nodes alike.
DegreeBound ==
    (/\ call = "evaluate_lagranges"
     /\ built_by = "interpol_poly"
     /\ Len(y_arr) = Len(x_arr)
     /\ Distinct(x_arr))
    => \A R \in [1..Len(x_arr) -> YVals] :
          (\A i \in 1..Len(x_arr) : PowerSum(R, x_arr[i]) = y_arr[i])
          => raised = "none" /\ poly_sum = FromInt(PowerSum(R, eval_point))

DegreeBoundWitness ==
    /\ call = "evaluate_lagranges"
    /\ built_by = "interpol_poly"
    /\ Len(x_arr) = 2
    /\ Len(y_arr) = 2
    /\ Distinct(x_arr)
    /\ \A i \in 1..2 : eval_point # x_arr[i]
    /\ \E R \in [1..2 -> YVals] :
          /\ R[1] # 0
          /\ \A i \in 1..2 : PowerSum(R, x_arr[i]) = y_arr[i]
          /\ PowerSum(R, eval_point) # 0
          /\ poly_sum = FromInt(PowerSum(R, eval_point))

Denominator ==
    call = "get_lagranges"
    => \A i \in 1..Len(x_arr) :
          /\ basis[i].denominator = NodeProduct(x_arr, i)
          /\ Len(x_arr) = 1 => basis[i].denominator = 1
          /\ Distinct(x_arr) => basis[i].denominator # 0

DenominatorWitness ==
    /\ call = "get_lagranges"
    /\ Len(x_arr) = 2
    /\ Distinct(x_arr)
    /\ basis[1].denominator = x_arr[1] - x_arr[2]
    /\ basis[2].denominator = x_arr[2] - x_arr[1]
    /\ basis[1].denominator = -2

EvaluateSum ==
    (/\ call = "evaluate_lagranges"
     /\ \A i \in 1..Len(basis) : basis[i].denominator # 0)
    => /\ raised = "none"
       /\ poly_sum = TermSumFrom(basis, eval_point, 1)
       /\ basis = <<>> => poly_sum = FromInt(0)

EvaluateSumWitness ==
    /\ call = "evaluate_lagranges"
    /\ Len(basis) = 2
    /\ \A i \in 1..Len(basis) : basis[i].denominator # 0
    /\ basis[2].numerator # 0
    /\ poly_sum = TermSumFrom(basis, eval_point, 1)
    /\ poly_sum.den = 2

\* C7 (mismatched lengths): interpol_poly(x, y) with Len(y) # Len(x), shorter
\* or longer, raises an out-of-range error and returns no basis.
MismatchedLengthsFail ==
    (call = "interpol_poly" /\ Len(y_arr) # Len(x_arr))
    => raised = "IndexError" /\ ~lagrange_set.bound

\* C8 (duplicate nodes): get_lagranges reports nothing on equal nodes and
\* gives their entries denominator 0; every evaluation of such a basis raises
\* ZeroDivisionError and returns no number.
DuplicateNodes ==
    /\ call = "get_lagranges" => raised = "none" /\ lagrange_set.bound
    /\ lagrange_set.bound
       => \A i, j \in 1..Len(x_arr) :
             (i # j /\ x_arr[i] = x_arr[j]) => basis[i].denominator = 0
    /\ (call = "evaluate_lagranges" /\ HasDuplicate(x_arr))
       => raised = "ZeroDivisionError" /\ poly_sum = NoValue

DuplicateNodesWitness ==
    /\ call = "evaluate_lagranges"
    /\ built_by = "interpol_poly"
    /\ Len(x_arr) = 2
    /\ x_arr[1] = x_arr[2]
    /\ y_arr = <<1, 1>>
    /\ basis[1].denominator = 0
    /\ basis[2].denominator = 0
    /\ raised = "ZeroDivisionError"
    /\ poly_sum = NoValue

\* the characters of s after position k, leading spaces dropped
RECURSIVE SkipSpaces(_, _)
SkipSpaces(s, k) ==
    IF k <= Len(s) /\ s[k] = " " THEN SkipSpaces(s, k + 1) ELSE k

\* no "+" is followed, spaces apart, by the "-" of a negative coefficient
NoPlusBeforeMinus(s) ==
    \A k \in 1..Len(s) :
        s[k] = "+" => LET m == SkipSpaces(s, k + 1) IN ~(m <= Len(s) /\ s[m] = "-")

\* C9 (formatter): for a non-empty coefficient sequence the output has no
\* "+" before a negative coefficient, and (4, 3, -2, 10) gives
\* "4x^3 +3x^2 -2x^1 10".
FormatterOutput ==
    (call = "convert_poly_to_str" /\ Len(coeffs) >= 1)
    => /\ ~poly_str.is_none
       /\ NoPlusBeforeMinus(poly_str.str)
       /\ coeffs = <<4, 3, -2, 10>>
          => poly_str.str = <<"4", "x", "^", "3", " ", "+", "3", "x", "^", "2", " ",
                              "-", "2", "x", "^", "1", " ", "1", "0">>

\* C10 (read-only, repeatable): every evaluate_lagranges leaves each entry of
\* the basis (numerator, denominator, x_array) as it was, so every later
\* evaluation reads the same basis; evaluating again at the same point
\* returns the identical result.
EvaluateReadOnly ==
    [][call' = "evaluate_lagranges"
       => /\ lagrange_set' = lagrange_set
          /\ (call = "evaluate_lagranges" /\ eval_point' = eval_point)
             => (raised' = raised /\ poly_sum' = poly_sum)]_vars

EvaluateReadOnlyWitness ==
    /\ call = "evaluate_lagranges"
    /\ repeated
    /\ built_by = "interpol_poly"
    /\ raised = "none"
    /\ Len(basis) = 2
    /\ basis[1].numerator # 0
    /\ basis[2].numerator # 0
    /\ \A i \in 1..2 : eval_point # x_arr[i]
    /\ poly_sum.num > 1

====
